---- MODULE Spec2Model ----
(***************************************************************************)
(* JOA.js (MuniRPC v2 client): header assembly, message-queue             *)
(* serialisation, integrity hash, post.                                    *)
(*                                                                         *)
(* lastId is the id that the latest returning add operation returned (0   *)
(* before the first), lastOp the latest operation with what it returned,   *)
(* threw or handed to its callback.                                        *)
(*                                                                         *)
(* Strings are sequences of one-character strings.  A JavaScript value is  *)
(* a record [t, s, b, n]: t is the typeof tag, s the characters of a       *)
(* string, b a boolean, n a number.  A call's outcome is a record          *)
(* [thrown, err, result]: thrown is "" or the name of the exception that   *)
(* left the function, (err, result) are the arguments handed to the        *)
(* callback.                                                               *)
(***************************************************************************)
EXTENDS Integers, Sequences, FiniteSets

VARIABLES header, messages, messageId, requests, lastOp, lastId

vars == <<header, messages, messageId, requests, lastOp, lastId>>

(***************************************************************************)
(* Bounds                                                                  *)
(***************************************************************************)
MaxId == 2
MaxInFlight == 1
MaxReports == 3
Md5MaxLen == 4

(***************************************************************************)
(* JavaScript values                                                       *)
(***************************************************************************)
JNull == [t |-> "null", s |-> <<>>, b |-> FALSE, n |-> 0]
JUndef == [t |-> "undefined", s |-> <<>>, b |-> FALSE, n |-> 0]
JStr(cs) == [t |-> "string", s |-> cs, b |-> FALSE, n |-> 0]
JBool(v) == [t |-> "boolean", s |-> <<>>, b |-> v, n |-> 0]
JNum(k) == [t |-> "number", s |-> <<>>, b |-> FALSE, n |-> k]

\* ToBoolean
Truthy(v) ==
    CASE v.t = "string" -> Len(v.s) > 0
      [] v.t = "boolean" -> v.b
      [] v.t = "number" -> v.n # 0
      [] OTHER -> FALSE

\* v.length throws a TypeError on undefined and null
LengthThrows(v) == v.t \in {"undefined", "null"}

\* v !== null
NotNull(v) == v.t # "null"

\* v.length >= 0 in place of v.length > 0
LengthNotNegative(v) == v.t = "string"

\* v.length > 0: the length of a boolean or a number is undefined, and
\* undefined > 0 is false
LengthPositive(v) == v.t = "string" /\ Len(v.s) > 0

digits == <<"0", "1", "2", "3", "4", "5", "6", "7", "8", "9">>

RECURSIVE NumberToString(_)
NumberToString(k) ==
    IF k < 10 THEN <<digits[k + 1]>>
    ELSE NumberToString(k \div 10) \o <<digits[(k % 10) + 1]>>

\* ToString, as applied by the + operator to a non-string operand
ToStr(v) ==
    CASE v.t = "string" -> v.s
      [] v.t = "null" -> <<"n", "u", "l", "l">>
      [] v.t = "undefined" -> <<"u", "n", "d", "e", "f", "i", "n", "e", "d">>
      [] v.t = "boolean" -> IF v.b THEN <<"t", "r", "u", "e">>
                            ELSE <<"f", "a", "l", "s", "e">>
      [] v.t = "number" -> NumberToString(v.n)

\* String.prototype.indexOf: 0-based index of the first occurrence, or -1
indexOf(str, pat) ==
    LET hits == {i \in 1..(Len(str) - Len(pat) + 1) :
                    SubSeq(str, i, i + Len(pat) - 1) = pat}
    IN IF hits = {} THEN -1
       ELSE (CHOOSE i \in hits : \A j \in hits : i <= j) - 1

\* str.slice(from) and str.slice(from, to) with 0-based, non-negative indexes
sliceFrom(str, from) == SubSeq(str, from + 1, Len(str))
slice(str, from, to) == SubSeq(str, from + 1, to)

\* Array.prototype.join(","), which is what Array.prototype.toString does
RECURSIVE arrayToString(_)
arrayToString(arr) ==
    IF arr = <<>> THEN <<>>
    ELSE IF Len(arr) = 1 THEN arr[1]
    ELSE arr[1] \o <<",">> \o arrayToString(Tail(arr))

(***************************************************************************)
(* Special characters and protocol constants                               *)
(***************************************************************************)
char == [tab |-> "\t", eol |-> "\n"]

protocolVersion == <<"M", "u", "n", "i", "R", "P", "C", "v", "2", ":">>

messageType == [ZCLReport |-> JNum(0), ZCLMultiReport |-> JNum(1),
                ZCLCommand |-> JNum(2), TAZFrame |-> JNum(3),
                TimeIndication |-> JStr(<<"t">>)]

\* Object.keys(header.attribute) of the private header object
headerAttributeKeys == <<"vendor", "hash", "secret", "time">>

keyChars == [vendor |-> <<"v", "e", "n", "d", "o", "r">>,
             hash |-> <<"h", "a", "s", "h">>,
             secret |-> <<"s", "e", "c", "r", "e", "t">>,
             time |-> <<"t", "i", "m", "e">>]

no_gatewayidentifier_set ==
    <<"n", "o", "_", "g", "a", "t", "e", "w", "a", "y", "i", "d", "e", "n",
      "t", "i", "f", "i", "e", "r", "_", "s", "e", "t">>
no_vendor_attribute_set ==
    <<"n", "o", "_", "v", "e", "n", "d", "o", "r", "_", "a", "t", "t", "r",
      "i", "b", "u", "t", "e", "_", "s", "e", "t">>
no_secret_set ==
    <<"n", "o", "_", "s", "e", "c", "r", "e", "t", "_", "s", "e", "t">>

\* the header object the module starts with
defaultHeader ==
    [gatewayIdentifier |-> JNull,
     attribute |-> [vendor |-> JNull, hash |-> JNull,
                    secret |-> JNull, time |-> JNull]]

(***************************************************************************)
(* Outcomes                                                                *)
(***************************************************************************)
Callback(err, result) == [thrown |-> "", err |-> err, result |-> result]
Throw(name) == [thrown |-> name, err |-> JUndef, result |-> JUndef]

(***************************************************************************)
(* md5                                                                     *)
(***************************************************************************)
\* J: k.replace(/rn/g, "n").  "rn" cannot overlap itself, so the scan
\* drops exactly every "r" that is directly followed by an "n".  Computed
\* over the index range lo..hi by halving.
RECURSIVE replaceRnRange(_, _, _)
replaceRnRange(k, lo, hi) ==
    IF lo > hi THEN <<>>
    ELSE IF lo = hi
    THEN IF k[lo] = "r" /\ lo < Len(k) /\ k[lo + 1] = "n" THEN <<>>
         ELSE <<k[lo]>>
    ELSE LET mid == (lo + hi) \div 2
         IN replaceRnRange(k, lo, mid) \o replaceRnRange(k, mid + 1, hi)

replaceRn(k) == replaceRnRange(k, 1, Len(k))

\* the characters lo..hi of cs as one string
RECURSIVE FlattenRange(_, _, _)
FlattenRange(cs, lo, hi) ==
    IF lo > hi THEN ""
    ELSE IF lo = hi THEN cs[lo]
    ELSE LET mid == (lo + hi) \div 2
         IN FlattenRange(cs, lo, mid) \o FlattenRange(cs, mid + 1, hi)

Flatten(cs) == FlattenRange(cs, 1, Len(cs))

\* J leaves every character below 128 as the byte it is, and every
\* character of the model is one.  The block rounds and the hex rendering
\* are kept abstract: the digest is one token that names the byte sequence
\* handed to the rounds.
md5(str) == "md5(" \o Flatten(replaceRn(str)) \o ")"

(***************************************************************************)
(* Header builder                                                          *)
(***************************************************************************)
\* the secret written as key=value like vendor, in place of skipped
RECURSIVE appendAttributesWithSecret(_, _, _)
appendAttributesWithSecret(h, i, headerStr) ==
    IF i > Len(headerAttributeKeys) THEN Callback(JNull, JStr(headerStr))
    ELSE
      LET attributeKey == headerAttributeKeys[i]
          attributeValue == h.attribute[attributeKey]
      IN IF NotNull(attributeValue) /\ LengthThrows(attributeValue)
         THEN Throw("TypeError")
         ELSE IF (NotNull(attributeValue) /\ LengthPositive(attributeValue))
                 \/ Truthy(attributeValue)
         THEN IF attributeKey = "time"
              THEN appendAttributesWithSecret(h, i + 1,
                       headerStr \o <<",", "t", "i", "m", "e">>)
              ELSE IF attributeKey # "hash"
              THEN appendAttributesWithSecret(h, i + 1,
                       headerStr \o <<",">> \o keyChars[attributeKey]
                                 \o <<"=">> \o ToStr(attributeValue))
              ELSE appendAttributesWithSecret(h, i + 1, headerStr)
         ELSE appendAttributesWithSecret(h, i + 1, headerStr)

\* time written as key=value like vendor, in place of the bare key
RECURSIVE appendAttributesTimeValue(_, _, _)
appendAttributesTimeValue(h, i, headerStr) ==
    IF i > Len(headerAttributeKeys) THEN Callback(JNull, JStr(headerStr))
    ELSE
      LET attributeKey == headerAttributeKeys[i]
          attributeValue == h.attribute[attributeKey]
      IN IF NotNull(attributeValue) /\ LengthThrows(attributeValue)
         THEN Throw("TypeError")
         ELSE IF (NotNull(attributeValue) /\ LengthPositive(attributeValue))
                 \/ Truthy(attributeValue)
         THEN IF attributeKey # "secret" /\ attributeKey # "hash"
              THEN appendAttributesTimeValue(h, i + 1,
                       headerStr \o <<",">> \o keyChars[attributeKey]
                                 \o <<"=">> \o ToStr(attributeValue))
              ELSE appendAttributesTimeValue(h, i + 1, headerStr)
         ELSE appendAttributesTimeValue(h, i + 1, headerStr)

\* the loop of constructHeader over headerAttributeKeys, from index i on
RECURSIVE appendAttributes(_, _, _)
appendAttributes(h, i, headerStr) ==
    IF i > Len(headerAttributeKeys) THEN Callback(JNull, JStr(headerStr))
    ELSE
      LET attributeKey == headerAttributeKeys[i]
          attributeValue == h.attribute[attributeKey]
      IN IF NotNull(attributeValue) /\ LengthThrows(attributeValue)
         THEN Throw("TypeError")
         ELSE IF (NotNull(attributeValue) /\ LengthPositive(attributeValue))
                 \/ Truthy(attributeValue)
         THEN IF attributeKey = "time"
              THEN appendAttributes(h, i + 1,
                       headerStr \o <<",", "t", "i", "m", "e">>)
              ELSE IF attributeKey # "secret" /\ attributeKey # "hash"
              THEN appendAttributes(h, i + 1,
                       headerStr \o <<",">> \o keyChars[attributeKey]
                                 \o <<"=">> \o ToStr(attributeValue))
              ELSE appendAttributes(h, i + 1, headerStr)
         ELSE appendAttributes(h, i + 1, headerStr)

constructHeader(h) ==
    LET gw == h.gatewayIdentifier
    IN IF NotNull(gw) /\ LengthThrows(gw) THEN Throw("TypeError")
       ELSE IF NotNull(gw) /\ LengthPositive(gw)
       THEN LET r == appendAttributes(h, 1, protocolVersion \o ToStr(gw))
            IN IF r.thrown # "" THEN r
               ELSE LET headerStr == r.result.s \o <<char.eol>>
                    IN IF indexOf(headerStr,
                                  <<"v", "e", "n", "d", "o", "r", "=">>) # -1
                       THEN Callback(JNull, JStr(headerStr))
                       ELSE Callback(JStr(no_vendor_attribute_set), JNull)
       ELSE Callback(JStr(no_gatewayidentifier_set), JNull)

(***************************************************************************)
(* Message queue serialisation                                             *)
(*                                                                         *)
(* A message is [keys, v]: keys is Object.keys(message) in insertion       *)
(* order, v maps each key to its value.                                    *)
(***************************************************************************)
RECURSIVE appendFields(_, _)
appendFields(message, j) ==
    IF j > Len(message.keys) THEN <<>>
    ELSE ToStr(message.v[message.keys[j]]) \o <<char.tab>>
         \o appendFields(message, j + 1)

convertMessage(message) ==
    LET convertedMessage == appendFields(message, 1)
    IN slice(convertedMessage, 0, Len(convertedMessage) - 1) \o <<char.eol>>

\* the array of converted messages
constructMessages(msgs) ==
    [i \in 1..Len(msgs) |-> convertMessage(msgs[i])]

(***************************************************************************)
(* Payload composer                                                        *)
(***************************************************************************)
\* the secret appended to the hashed text in place of prepended
hashJOAPayloadSecretLast(h, payload) ==
    LET indexOfHashHeader == indexOf(payload, <<char.eol>>)
    IN slice(payload, 0, indexOfHashHeader)
       \o <<",", "h", "a", "s", "h", "=">>
       \o <<md5(payload \o ToStr(h.attribute.secret))>>
       \o sliceFrom(payload, indexOfHashHeader)

hashJOAPayload(h, payload) ==
    LET indexOfHashHeader == indexOf(payload, <<char.eol>>)
    IN slice(payload, 0, indexOfHashHeader)
       \o <<",", "h", "a", "s", "h", "=">>
       \o <<md5(ToStr(h.attribute.secret) \o payload)>>
       \o sliceFrom(payload, indexOfHashHeader)

\* the payload hashed whenever hash is set, without the test of the secret
constructJOAPayloadAnySecret(h, msgs) ==
    LET r == constructHeader(h)
    IN IF r.thrown # "" THEN r
       ELSE IF Truthy(r.err) THEN Callback(r.err, JNull)
       ELSE IF ~Truthy(h.attribute.hash)
       THEN Callback(JNull,
                JStr(r.result.s \o arrayToString(constructMessages(msgs))))
       ELSE Callback(JNull,
                JStr(hashJOAPayload(h,
                    r.result.s \o arrayToString(constructMessages(msgs)))))

constructJOAPayload(h, msgs) ==
    LET r == constructHeader(h)
    IN IF r.thrown # "" THEN r
       ELSE IF Truthy(r.err) THEN Callback(r.err, JNull)
       ELSE IF ~Truthy(h.attribute.hash)
       THEN Callback(JNull,
                JStr(r.result.s \o arrayToString(constructMessages(msgs))))
       ELSE IF Truthy(h.attribute.hash) /\ Truthy(h.attribute.secret)
               /\ LengthPositive(h.attribute.secret)
       THEN Callback(JNull,
                JStr(hashJOAPayload(h,
                    r.result.s \o arrayToString(constructMessages(msgs)))))
       ELSE Callback(JStr(no_secret_set), JNull)

\* JSON.stringify of a string: quotes, with line feed, tab, quote and
\* backslash escaped
jsonEscapeChar(c) ==
    CASE c = "\n" -> <<"\\", "n">>
      [] c = "\t" -> <<"\\", "t">>
      [] c = "\"" -> <<"\\", "\"">>
      [] c = "\\" -> <<"\\", "\\">>
      [] OTHER -> <<c>>

RECURSIVE jsonEscapeRange(_, _, _)
jsonEscapeRange(str, lo, hi) ==
    IF lo > hi THEN <<>>
    ELSE IF lo = hi THEN jsonEscapeChar(str[lo])
    ELSE LET mid == (lo + hi) \div 2
         IN jsonEscapeRange(str, lo, mid) \o jsonEscapeRange(str, mid + 1, hi)

jsonStringify(str) ==
    <<"\"">> \o jsonEscapeRange(str, 1, Len(str)) \o <<"\"">>

debugSample ==
    <<"w", "a", "i", "g", "a", "6", "i", "e", "G", "o", "4", "e", "e", "f",
      "o", "2", "t", "h", "a", "Q", "u", "a", "s", "h", "4", "a", "h", "c",
      "4", "a", "i", "d", "M", "u", "n", "i", "R", "P", "C", "v", "2", ":",
      "1", "0", ".", "3", "2", ".", "1", "6", ".", "1", ",", "v", "e", "n",
      "d", "o", "r", "=", "a", "n", "d", "r", "o", "i", "d", "n", "o", "d",
      "e", ",", "t", "i", "m", "e", "\n", "1", "\t", "0", "\t", "\t", "0",
      "x", "0", "a", "\t", "0", "x", "f", "1", "0", "0", "\n">>

\* the lines constructJOAPayload writes with console.log (all of them in
\* hashJOAPayload)
consoleLog(h, msgs) ==
    LET r == constructHeader(h)
    IN IF r.thrown = "" /\ ~Truthy(r.err) /\ Truthy(h.attribute.hash)
          /\ Truthy(h.attribute.secret) /\ LengthPositive(h.attribute.secret)
       THEN LET payload ==
                  r.result.s \o arrayToString(constructMessages(msgs))
                text == ToStr(h.attribute.secret) \o payload
            IN << jsonStringify(text),
                  text,
                  <<md5(debugSample)>> >>
       ELSE <<>>

\* the payload composed from the header object the module starts with, in
\* place of the one set with headers()
toStringInitialHeader(h, msgs) ==
    LET r == constructJOAPayload(defaultHeader, msgs)
    IN IF r.thrown # "" THEN [thrown |-> r.thrown, ret |-> JUndef]
       ELSE [thrown |-> "",
             ret |-> IF Truthy(r.err) THEN r.err ELSE r.result]

\* toString: the error code or the payload
toString(h, msgs) ==
    LET r == constructJOAPayload(h, msgs)
    IN IF r.thrown # "" THEN [thrown |-> r.thrown, ret |-> JUndef]
       ELSE [thrown |-> "",
             ret |-> IF Truthy(r.err) THEN r.err ELSE r.result]

(***************************************************************************)
(* Message queue                                                           *)
(***************************************************************************)
generateId(counter) == counter + 1

\* a || b
OrElse(a, b) == IF Truthy(a) THEN a ELSE b

defaultEndpointId == JStr(<<"0", "x", "0", "a">>)
defaultProfileId == JStr(<<"0", "x", "f", "1", "0", "0">>)

\* the defaults substituted for null and undefined only, not for "" or 0
addZCLReportNullish(id, eui64, endpointId, profileId, clusterId, attributeId, dataTypeId, timestamp, value) ==
    [keys |-> <<"id", "messageType", "eui64", "endpointId", "profileId",
                "clusterId", "attributeId", "dataTypeId", "timestamp",
                "value">>,
     v |-> [id |-> JNum(id),
            messageType |-> messageType.ZCLReport,
            eui64 |-> eui64,
            endpointId |-> IF endpointId \in {JNull, JUndef}
                           THEN defaultEndpointId ELSE endpointId,
            profileId |-> IF profileId \in {JNull, JUndef}
                          THEN defaultProfileId ELSE profileId,
            clusterId |-> clusterId,
            attributeId |-> attributeId,
            dataTypeId |-> dataTypeId,
            timestamp |-> timestamp,
            value |-> value]]

addZCLReport(id, eui64, endpointId, profileId, clusterId, attributeId, dataTypeId, timestamp, value) ==
    [keys |-> <<"id", "messageType", "eui64", "endpointId", "profileId",
                "clusterId", "attributeId", "dataTypeId", "timestamp",
                "value">>,
     v |-> [id |-> JNum(id),
            messageType |-> messageType.ZCLReport,
            eui64 |-> eui64,
            endpointId |-> OrElse(endpointId, defaultEndpointId),
            profileId |-> OrElse(profileId, defaultProfileId),
            clusterId |-> clusterId,
            attributeId |-> attributeId,
            dataTypeId |-> dataTypeId,
            timestamp |-> timestamp,
            value |-> value]]

addZCLMultiReport(id, eui64, endpointId, profileId, clusterId, attributeId, dataTypeId, timestamp, offset, values) ==
    [keys |-> <<"id", "messageType", "eui64", "endpointId", "profileId",
                "clusterId", "attributeId", "dataTypeId", "timestamp",
                "offset", "values">>,
     v |-> [id |-> JNum(id),
            messageType |-> messageType.ZCLMultiReport,
            eui64 |-> eui64,
            endpointId |-> OrElse(endpointId, defaultEndpointId),
            profileId |-> OrElse(profileId, defaultProfileId),
            clusterId |-> clusterId,
            attributeId |-> attributeId,
            dataTypeId |-> dataTypeId,
            timestamp |-> timestamp,
            offset |-> offset,
            values |-> values]]

\* the id read from the counter as it was before generateId advanced it
addTimeStaleId(id, timestamp) ==
    [keys |-> <<"id", "messageType", "timestamp">>,
     v |-> [id |-> JNum(id - 1),
            messageType |-> messageType.TimeIndication,
            timestamp |-> timestamp]]

addTime(id, timestamp) ==
    [keys |-> <<"id", "messageType", "timestamp">>,
     v |-> [id |-> JNum(id),
            messageType |-> messageType.TimeIndication,
            timestamp |-> timestamp]]

clearMessages == <<>>

\* index of the first message whose id === id, 0 when there is none
firstWithId(msgs, id) ==
    LET hits == {i \in 1..Len(msgs) : msgs[i].v.id = id}
    IN IF hits = {} THEN 0 ELSE CHOOSE i \in hits : \A j \in hits : i <= j

\* messages.splice(i, 1)
splice1(msgs, i) == SubSeq(msgs, 1, i - 1) \o SubSeq(msgs, i + 1, Len(msgs))

\* messages.splice(i) in place of messages.splice(i, 1)
removeMessageToEnd(msgs, id) ==
    LET i == firstWithId(msgs, id)
    IN IF i # 0 THEN [messages |-> SubSeq(msgs, 1, i - 1), ret |-> TRUE]
       ELSE [messages |-> msgs, ret |-> FALSE]

\* removeMessage: the queue it leaves and the value it returns
removeMessage(msgs, id) ==
    LET i == firstWithId(msgs, id)
    IN IF i # 0 THEN [messages |-> splice1(msgs, i), ret |-> TRUE]
       ELSE [messages |-> msgs, ret |-> FALSE]

(***************************************************************************)
(* Inputs                                                                  *)
(***************************************************************************)
gatewayG == JStr(<<"g">>)
gatewayVendorText == JStr(<<"v", "e", "n", "d", "o", "r", "=">>)
gatewayWithEol == JStr(<<"g", "\n", "h">>)
vendorV == JStr(<<"v">>)
vendorWithEol == JStr(<<"v", "\n", "w">>)
secretS == JStr(<<"s">>)
secretRn == JStr(<<"r", "n">>)

GatewayIdentifiers ==
    {JUndef, JNull, JStr(<<>>), gatewayG, gatewayVendorText, gatewayWithEol}
Vendors == {JUndef, JNull, JStr(<<>>), vendorV, vendorWithEol}
Flags == {JUndef, JNull, JBool(FALSE), JBool(TRUE)}
Secrets == {JUndef, JNull, JStr(<<>>), secretS, secretRn}

\* the objects handed to headers() when composition is examined on its own
AllHeaders ==
    {[gatewayIdentifier |-> g,
      attribute |-> [vendor |-> vn, hash |-> hs, secret |-> sc, time |-> tm]] :
        g \in GatewayIdentifiers, vn \in Vendors, hs \in Flags,
        sc \in Secrets, tm \in Flags}

Header(g, vn, hs, sc, tm) ==
    [gatewayIdentifier |-> g,
     attribute |-> [vendor |-> vn, hash |-> hs, secret |-> sc, time |-> tm]]

\* the objects handed to headers() in the queue and transport machine: one
\* that composes, one that makes composition throw; the header the module
\* starts with makes composition fail with an error code
SomeHeaders ==
    {Header(gatewayG, vendorV, JBool(TRUE), secretS, JBool(TRUE)),
     [gatewayIdentifier |-> JUndef, attribute |-> defaultHeader.attribute]}

\* the (endpointId, profileId) pairs handed to addZCLReport
EndpointProfiles == {<<JNull, JNull>>}

\* the arguments of one call of addZCLReport
reportArgs(ep, value) ==
    [eui64 |-> JStr(<<"e">>), endpointId |-> ep[1], profileId |-> ep[2],
     clusterId |-> JStr(<<"c">>), attributeId |-> JStr(<<"d">>),
     dataTypeId |-> JStr(<<"x">>), timestamp |-> JNum(10), value |-> value]

zclReportOf(id, a) ==
    addZCLReport(id, a.eui64, a.endpointId, a.profileId, a.clusterId,
                 a.attributeId, a.dataTypeId, a.timestamp, a.value)

zclReport(id, ep) == zclReportOf(id, reportArgs(ep, JStr(<<"1">>)))

\* the arguments handed to addZCLReport in the queue and transport machine
SomeReportArgs == {reportArgs(ep, JStr(<<"1">>)) : ep \in EndpointProfiles}

\* the arguments handed to addZCLReport when it is examined on its own:
\* endpointId and profileId absent, falsy and set, value absent and set
EndpointIds == {JUndef, JNull, JStr(<<>>), JStr(<<"a">>)}
ProfileIds == {JUndef, JBool(FALSE), JNum(0), JStr(<<"b">>)}
AllReportArgs ==
    {reportArgs(<<e, p>>, x) :
        e \in EndpointIds, p \in ProfileIds, x \in {JUndef, JStr(<<"1">>)}}

zclMultiReport(id) ==
    addZCLMultiReport(id, JStr(<<"e">>), JNull, JNull, JStr(<<"c">>),
                      JStr(<<"d">>), JStr(<<"x">>), JNum(10), JNum(5),
                      JStr(<<"1">>))

RECURSIVE QueuesOfLen(_)
QueuesOfLen(k) ==
    IF k = 0 THEN {<<>>}
    ELSE {Append(q, zclReport(k, <<JNull, JNull>>)) : q \in QueuesOfLen(k - 1)}
         \cup {Append(q, addTime(k, JNum(7))) : q \in QueuesOfLen(k - 1)}

DONE == 4
ReadyStates == {3, DONE}
Statuses == {200, 404, 0}
statusText(status) ==
    CASE status = 200 -> JStr(<<"O", "K">>)
      [] status = 404 -> JStr(<<"N", "o", "t", " ", "F", "o", "u", "n", "d">>)
      [] OTHER -> JStr(<<>>)
responseText == JStr(<<"a", "c", "k">>)

(***************************************************************************)
(* Operations                                                              *)
(***************************************************************************)
Init ==
    /\ header = defaultHeader
    /\ messages = <<>>
    /\ messageId = 0
    /\ requests = <<>>
    /\ lastOp = [op |-> "init"]
    /\ lastId = 0

Headers ==
    \E obj \in SomeHeaders :
        /\ header' = obj
        /\ lastOp' = [op |-> "headers"]
        /\ UNCHANGED <<messages, messageId, requests, lastId>>

Added(name, obj) ==
    /\ messageId' = generateId(messageId)
    /\ messages' = Append(messages, obj)
    /\ lastId' = obj.v.id.n
    /\ lastOp' = [op |-> name, thrown |-> "", ret |-> obj]
    /\ UNCHANGED <<header, requests>>

\* one call of addZCLReport with the arguments a
AddZCLReportWith(a) ==
    LET obj == zclReportOf(generateId(messageId), a)
    IN /\ messageId' = generateId(messageId)
       /\ messages' = Append(messages, obj)
       /\ lastId' = obj.v.id.n
       /\ lastOp' = [op |-> "addZCLReport", thrown |-> "", ret |-> obj,
                     args |-> a]
       /\ UNCHANGED <<header, requests>>

AddZCLReport ==
    /\ messageId < MaxId
    /\ \E a \in SomeReportArgs : AddZCLReportWith(a)

AddZCLMultiReport ==
    /\ messageId < MaxId
    /\ Added("addZCLMultiReport", zclMultiReport(generateId(messageId)))

\* id: generateId() is evaluated, then reading the undeclared name offset
\* throws a ReferenceError: nothing is pushed, nothing is returned
AddZCLCommand ==
    /\ messageId < MaxId
    /\ messageId' = generateId(messageId)
    /\ lastOp' = [op |-> "addZCLCommand", thrown |-> "ReferenceError"]
    /\ UNCHANGED <<header, messages, requests, lastId>>

AddTime ==
    /\ messageId < MaxId
    /\ Added("addTime", addTime(generateId(messageId), JNum(7)))

ClearMessages ==
    /\ messages' = clearMessages
    /\ lastOp' = [op |-> "clearMessages"]
    /\ UNCHANGED <<header, messageId, requests, lastId>>

RemoveMessage ==
    \E k \in 1..(messageId + 1) :
        LET r == removeMessage(messages, JNum(k))
        IN /\ messages' = r.messages
           /\ lastOp' = [op |-> "removeMessage", id |-> k, ret |-> r.ret]
           /\ UNCHANGED <<header, messageId, requests, lastId>>

ToStringAct ==
    LET r == toString(header, messages)
    IN /\ lastOp' = [op |-> "toString", thrown |-> r.thrown, ret |-> r.ret,
                     log |-> consoleLog(header, messages)]
       /\ UNCHANGED <<header, messages, messageId, requests, lastId>>

\* the callback's arguments, and the queue as it is when the callback runs
Invoked(err, result, queue) ==
    [err |-> err, result |-> result, messages |-> queue]

Post ==
    LET r == constructJOAPayload(header, messages)
        log == consoleLog(header, messages)
    IN IF r.thrown # ""
       THEN /\ lastOp' = [op |-> "post", thrown |-> r.thrown, sent |-> FALSE,
                          cb |-> <<>>, log |-> log]
            /\ UNCHANGED <<header, messages, messageId, requests, lastId>>
       ELSE IF Truthy(r.err)
       THEN /\ lastOp' = [op |-> "post", thrown |-> "", sent |-> FALSE,
                          cb |-> <<Invoked(r.err, JNull, messages)>>,
                          log |-> log]
            /\ UNCHANGED <<header, messages, messageId, requests, lastId>>
       ELSE /\ Len(requests) < MaxInFlight
            /\ requests' = Append(requests, [params |-> r.result.s])
            /\ lastOp' = [op |-> "post", thrown |-> "", sent |-> TRUE,
                          cb |-> <<>>, log |-> log]
            /\ UNCHANGED <<header, messages, messageId, lastId>>

\* no callback when the request is DONE with a status other than 200
onreadystatechangeSilentFailure(msgs, readyState, status) ==
    IF readyState = DONE /\ status = 200
    THEN [messages |-> clearMessages,
          cb |-> <<Invoked(JNull, responseText, clearMessages)>>]
    ELSE [messages |-> msgs, cb |-> <<>>]

\* the callback invoked before the queue is cleared
onreadystatechangeCallbackFirst(msgs, readyState, status) ==
    IF readyState = DONE
    THEN IF status = 200
         THEN [messages |-> clearMessages,
               cb |-> <<Invoked(JNull, responseText, msgs)>>]
         ELSE [messages |-> msgs,
               cb |-> <<Invoked(statusText(status), JNull, msgs)>>]
    ELSE [messages |-> msgs, cb |-> <<>>]

\* the queue cleared whenever the request is DONE, whatever the status
onreadystatechangeAlwaysClear(msgs, readyState, status) ==
    IF readyState = DONE
    THEN IF status = 200
         THEN [messages |-> clearMessages,
               cb |-> <<Invoked(JNull, responseText, clearMessages)>>]
         ELSE [messages |-> clearMessages,
               cb |-> <<Invoked(statusText(status), JNull, clearMessages)>>]
    ELSE [messages |-> msgs, cb |-> <<>>]

\* the onreadystatechange handler: the queue it leaves and the callback
\* invocation it makes, if any
onreadystatechange(msgs, readyState, status) ==
    IF readyState = DONE
    THEN IF status = 200
         THEN LET cleared == clearMessages
              IN [messages |-> cleared,
                  cb |-> <<Invoked(JNull, responseText, cleared)>>]
         ELSE [messages |-> msgs,
               cb |-> <<Invoked(statusText(status), JNull, msgs)>>]
    ELSE [messages |-> msgs, cb |-> <<>>]

\* a state change of request i; the request leaves flight when it is DONE
OnReadyStateChange ==
    \E i \in 1..Len(requests), readyState \in ReadyStates, status \in Statuses :
        LET r == onreadystatechange(messages, readyState, status)
        IN /\ messages' = r.messages
           /\ lastOp' = [op |-> "onreadystatechange",
                         readyState |-> readyState,
                         status |-> IF readyState = DONE THEN status ELSE 0,
                         cb |-> r.cb,
                         removed |-> Len(messages) - Len(r.messages)]
           /\ requests' = IF readyState = DONE THEN splice1(requests, i)
                          ELSE requests
           /\ UNCHANGED <<header, messageId, lastId>>

\* The source attaches headers, addZCLReport, clearMessages, removeMessage,
\* post and toString to the JOA object.  addZCLMultiReport, addZCLCommand and
\* addTime are documented as JOA methods and defined next to addZCLReport
\* but never attached; they are operations here as they are in the
\* documentation.
Next ==
    \/ Headers
    \/ AddZCLReport
    \/ AddZCLMultiReport
    \/ AddZCLCommand
    \/ AddTime
    \/ ClearMessages
    \/ RemoveMessage
    \/ ToStringAct
    \/ Post
    \/ OnReadyStateChange

Spec == Init /\ [][Next]_vars

(***************************************************************************)
(* Composition on its own: every header object in AllHeaders, every queue  *)
(* of at most MaxReports reports                                           *)
(***************************************************************************)
InitCompose ==
    /\ header \in AllHeaders
    /\ \E k \in 0..MaxReports :
          /\ messages \in QueuesOfLen(k)
          /\ messageId = k
          /\ lastId = k
    /\ requests = <<>>
    /\ lastOp = [op |-> "init"]

NextCompose == ToStringAct

SpecCompose == InitCompose /\ [][NextCompose]_vars

(***************************************************************************)
(* The queue on its own: every queue of at most MaxReports reports,        *)
(* removals and clearing                                                   *)
(***************************************************************************)
InitQueue ==
    /\ header = defaultHeader
    /\ \E k \in 0..MaxReports :
          /\ messages \in QueuesOfLen(k)
          /\ messageId = k
          /\ lastId = k
    /\ requests = <<>>
    /\ lastOp = [op |-> "init"]

NextQueue == RemoveMessage \/ ClearMessages

SpecQueue == InitQueue /\ [][NextQueue]_vars

(***************************************************************************)
(* addZCLReport on its own: every argument list of AllReportArgs           *)
(***************************************************************************)
AddZCLReportAny ==
    /\ messageId < MaxId
    /\ \E a \in AllReportArgs : AddZCLReportWith(a)

NextAdd == AddZCLReportAny

SpecAdd == Init /\ [][NextAdd]_vars

(***************************************************************************)
(* md5 on its own: every string of at most Md5MaxLen characters over a     *)
(* small alphabet                                                          *)
(***************************************************************************)
Md5Alphabet == {"r", "n", "a"}

Md5Inputs == UNION {[1..k -> Md5Alphabet] : k \in 0..Md5MaxLen}

Md5Act ==
    \E s \in Md5Inputs :
        /\ lastOp' = [op |-> "md5", s |-> s, ret |-> md5(s)]
        /\ UNCHANGED <<header, messages, messageId, requests, lastId>>

NextMd5 == Md5Act

SpecMd5 == Init /\ [][NextMd5]_vars

(***************************************************************************)
(* post and the transport on their own: the header the module starts with  *)
(* and those of SomeHeaders, every queue of at most MaxReports reports.    *)
(* The transport brings every request it was handed to DONE: the           *)
(* completion of a request in flight is not postponed for ever.            *)
(***************************************************************************)
InitPost ==
    /\ header \in SomeHeaders \cup {defaultHeader}
    /\ \E k \in 0..MaxReports :
          /\ messages \in QueuesOfLen(k)
          /\ messageId = k
          /\ lastId = k
    /\ requests = <<>>
    /\ lastOp = [op |-> "init"]

\* a state change that brings a request to DONE
Complete == OnReadyStateChange /\ lastOp'.readyState = DONE

NextPost == Post \/ OnReadyStateChange

SpecPost == InitPost /\ [][NextPost]_vars /\ WF_vars(Complete)

(***************************************************************************)
(* Vocabulary of the properties                                            *)
(***************************************************************************)
ErrorCodes == {JStr(no_gatewayidentifier_set), JStr(no_vendor_attribute_set),
               JStr(no_secret_set)}

\* toString has run on the current header and queue
Stringified == lastOp.op = "toString"

\* ... and returned a composed payload
Composed == Stringified /\ lastOp.thrown = "" /\ lastOp.ret.t = "string"
            /\ lastOp.ret \notin ErrorCodes

\* ... and returned this error code
FailedWith(code) == Stringified /\ lastOp.thrown = "" /\ lastOp.ret = JStr(code)

\* every key of the header object is present: a string, a boolean or null
Present(h) ==
    /\ h.gatewayIdentifier # JUndef
    /\ \A i \in 1..Len(headerAttributeKeys) :
          h.attribute[headerAttributeKeys[i]] # JUndef

NonEmptyString(v) == v.t = "string" /\ Len(v.s) > 0
NullOrEmpty(v) == v = JNull \/ v = JStr(<<>>)
NoEol(v) == \A i \in 1..Len(v.s) : v.s[i] # "\n"

\* the first line of a text, without and with its line feed, and the rest
FirstEol(text) == CHOOSE i \in 1..Len(text) :
                     text[i] = "\n" /\ \A j \in 1..(i - 1) : text[j] # "\n"
HeaderLine(text) == SubSeq(text, 1, FirstEol(text) - 1)
Body(text) == SubSeq(text, FirstEol(text) + 1, Len(text))

\* the field values of a report joined by single tabs, then one line feed
RECURSIVE JoinedByTabs(_, _)
JoinedByTabs(message, j) ==
    IF j = Len(message.keys) THEN ToStr(message.v[message.keys[j]])
    ELSE ToStr(message.v[message.keys[j]]) \o <<"\t">>
         \o JoinedByTabs(message, j + 1)

Rendered(message) == JoinedByTabs(message, 1) \o <<"\n">>

\* the rendered reports one after the other, nothing in between
RECURSIVE Concatenated(_)
Concatenated(msgs) ==
    IF msgs = <<>> THEN <<>>
    ELSE Rendered(Head(msgs)) \o Concatenated(Tail(msgs))

\* the number of places where pat occurs in text
Occurrences(text, pat) ==
    Cardinality({i \in 1..(Len(text) - Len(pat) + 1) :
                    SubSeq(text, i, i + Len(pat) - 1) = pat})

hashAttribute == <<",", "h", "a", "s", "h", "=">>

\* a digest is the one element of a text that is not a single character
IsDigest(c) == Len(c) > 1
Digests(text) == Cardinality({i \in 1..Len(text) : IsDigest(text[i])})

\* the places of a line where ",hash=" is directly followed by a digest
HashAttributes(line) ==
    Cardinality({i \in 1..(Len(line) - Len(hashAttribute)) :
                    /\ SubSeq(line, i, i + Len(hashAttribute) - 1)
                         = hashAttribute
                    /\ IsDigest(line[i + Len(hashAttribute)])})

(***************************************************************************)
(* C1: for every queue, the body of the composed payload (everything after *)
(* the header line) is the rendered reports concatenated in queue order,   *)
(* each the field values joined by single tabs and ended by one line feed, *)
(* with nothing between two consecutive reports.  The header line is the   *)
(* first line, so the header's strings are taken without line feeds.       *)
(* Fails on the code: two queued reports are joined by a comma.            *)
(***************************************************************************)
C1_BodyIsConcatenation ==
    (Composed /\ NoEol(header.gatewayIdentifier)
              /\ NoEol(header.attribute.vendor))
        => Body(lastOp.ret.s) = Concatenated(messages)

(***************************************************************************)
(* C2: with every key present, gatewayIdentifier and vendor non-empty      *)
(* strings without line feed, hash truthy and secret a non-empty string,   *)
(* toString returns H' + ",hash=" + digest(secret + H + B) + LF + B, where *)
(* H = "MuniRPCv2:" + gatewayIdentifier + ",vendor=" + vendor + (",time"   *)
(* when time is truthy) + LF is the unhashed header line, H' is H without  *)
(* its LF, and H + B is what the same header with hash switched off        *)
(* composes for the same queue.                                            *)
(***************************************************************************)
C2_Hashable(h) ==
    /\ Present(h)
    /\ NonEmptyString(h.gatewayIdentifier) /\ NoEol(h.gatewayIdentifier)
    /\ NonEmptyString(h.attribute.vendor) /\ NoEol(h.attribute.vendor)
    /\ Truthy(h.attribute.hash)
    /\ NonEmptyString(h.attribute.secret)

C2_UnhashedHeader(h) ==
    protocolVersion \o h.gatewayIdentifier.s
        \o <<",", "v", "e", "n", "d", "o", "r", "=">> \o h.attribute.vendor.s
        \o (IF Truthy(h.attribute.time) THEN <<",", "t", "i", "m", "e">>
            ELSE <<>>)

C2_Unhashed(h, msgs) ==
    toString([h EXCEPT !.attribute.hash = JBool(FALSE)], msgs).ret.s

C3_VendorMandatory ==
    (Stringified /\ Present(header)
       /\ NullOrEmpty(header.attribute.vendor)
       /\ NonEmptyString(header.gatewayIdentifier))
        => FailedWith(no_vendor_attribute_set)

(***************************************************************************)
(* C4: with gatewayIdentifier null or "", toString returns                 *)
(* no_gatewayidentifier_set whatever vendor, time, hash and secret are,    *)
(* also where a missing vendor or a missing secret would be reported.      *)
(***************************************************************************)
C4_GatewayIdentifierMandatory ==
    (Stringified /\ NullOrEmpty(header.gatewayIdentifier))
        => FailedWith(no_gatewayidentifier_set)

C4_Witness ==
    /\ FailedWith(no_gatewayidentifier_set)
    /\ header.gatewayIdentifier = JStr(<<>>)
    /\ header.attribute.vendor = JNull
    /\ header.attribute.hash = JBool(TRUE)
    /\ header.attribute.secret = JNull

(***************************************************************************)
(* C5: with every key present, gatewayIdentifier a non-empty string and    *)
(* vendor a non-empty string: hash truthy and secret null or "" gives      *)
(* no_secret_set; hash truthy and secret a non-empty string gives a        *)
(* payload whose header line holds exactly one ",hash=<digest>"; hash      *)
(* falsy gives a payload whose header line holds no hash attribute.        *)
(***************************************************************************)
C5_Valid(h) ==
    /\ Present(h)
    /\ NonEmptyString(h.gatewayIdentifier)
    /\ NonEmptyString(h.attribute.vendor)

C5_HashNeedsSecret ==
    (Stringified /\ C5_Valid(header)) =>
        /\ (Truthy(header.attribute.hash)
              /\ NullOrEmpty(header.attribute.secret))
             => FailedWith(no_secret_set)
        /\ (Truthy(header.attribute.hash)
              /\ NonEmptyString(header.attribute.secret))
             => /\ Composed
                /\ HashAttributes(HeaderLine(lastOp.ret.s)) = 1
                /\ Occurrences(HeaderLine(lastOp.ret.s), hashAttribute) = 1
                /\ Digests(lastOp.ret.s) = 1
        /\ ~Truthy(header.attribute.hash)
             => /\ Composed
                /\ Occurrences(HeaderLine(lastOp.ret.s), hashAttribute) = 0
                /\ Digests(lastOp.ret.s) = 0

C5_Witness ==
    /\ Composed /\ C5_Valid(header)
    /\ Truthy(header.attribute.hash)
    /\ HashAttributes(HeaderLine(lastOp.ret.s)) = 1

(***************************************************************************)
(* C6: toString never throws: for every header object, also one whose      *)
(* gatewayIdentifier or attribute keys are absent (undefined), it returns  *)
(* a payload or one of the three error codes, and an absent                *)
(* gatewayIdentifier yields no_gatewayidentifier_set.                      *)
(* Fails on the code: reading .length of undefined throws a TypeError.     *)
(***************************************************************************)
C6_NeverThrows ==
    Stringified =>
        /\ lastOp.thrown = ""
        /\ Composed \/ lastOp.ret \in ErrorCodes
        /\ header.gatewayIdentifier = JUndef
             => FailedWith(no_gatewayidentifier_set)

(***************************************************************************)
(* C7: the ids returned by successive add operations are 1, 2, 3, ...:     *)
(* the first is 1 and each next one is the previous plus 1, so no id is    *)
(* assigned twice; no operation resets or lowers the id counter.           *)
(* Fails on the code: addZCLCommand takes an id and throws before it       *)
(* returns, so the next id returned skips one.                             *)
(***************************************************************************)
C7_AddOps == {"addZCLReport", "addZCLMultiReport", "addZCLCommand", "addTime"}

C7_IdsIncreaseByOne ==
    /\ [][(lastOp'.op \in C7_AddOps /\ lastOp'.thrown = "")
            => lastOp'.ret.v.id.n = lastId + 1]_vars
    /\ [][messageId' >= messageId]_vars

(***************************************************************************)
(* C8: removeMessage(id) returns true and removes exactly the one queued   *)
(* report with that id, keeping the others in their order, when such a     *)
(* report is queued; otherwise it returns false and leaves the queue as it *)
(* is; the id counter is unchanged in both cases.                          *)
(***************************************************************************)
C8_Queued(msgs, id) == \E i \in 1..Len(msgs) : msgs[i].v.id = JNum(id)

C8_Without(msgs, id) ==
    LET Other(m) == m.v.id # JNum(id) IN SelectSeq(msgs, Other)

C8_RemoveMessage ==
    [][lastOp'.op = "removeMessage" =>
        /\ messageId' = messageId
        /\ C8_Queued(messages, lastOp'.id) =>
              /\ lastOp'.ret = TRUE
              /\ Len(messages') = Len(messages) - 1
              /\ messages' = C8_Without(messages, lastOp'.id)
        /\ ~C8_Queued(messages, lastOp'.id) =>
              /\ lastOp'.ret = FALSE
              /\ messages' = messages]_vars

\* a report removed from the front or the middle of three
C8_Witness ==
    /\ lastOp.op = "removeMessage" /\ lastOp.ret = TRUE
    /\ Len(messages) = 2
    /\ messages[2].v.id.n > lastOp.id

(***************************************************************************)
(* C9: when a request completes with status 200 the queue is cleared and   *)
(* the callback is invoked with a null error and the response body; the    *)
(* queue is already empty when the callback runs.                          *)
(***************************************************************************)
C9_Completed200 ==
    /\ lastOp.op = "onreadystatechange"
    /\ lastOp.readyState = DONE
    /\ lastOp.status = 200

C9_ClearedBeforeCallback ==
    C9_Completed200 =>
        /\ messages = <<>>
        /\ lastOp.cb = <<Invoked(JNull, responseText, <<>>)>>

C9_Witness == C9_Completed200 /\ lastOp.removed >= 1

(***************************************************************************)
(* C10: post leaves the queue and the id counter unchanged unless the      *)
(* request completes with status 200: when composition fails no request is *)
(* issued and the callback receives the composition error; when the        *)
(* request completes with another status the callback receives the status  *)
(* text as the error and the queue holds every report it held before.      *)
(***************************************************************************)
C10_PostKeepsQueue ==
    [][/\ lastOp'.op = "post" =>
            /\ messages' = messages /\ messageId' = messageId
            /\ LET r == constructJOAPayload(header, messages)
               IN (r.thrown = "" /\ Truthy(r.err)) =>
                     /\ requests' = requests
                     /\ r.err \in ErrorCodes
                     /\ lastOp'.cb = <<Invoked(r.err, JNull, messages)>>
       /\ lastOp'.op = "onreadystatechange" =>
            /\ messageId' = messageId
            /\ ~(lastOp'.readyState = DONE /\ lastOp'.status = 200) =>
                  messages' = messages
            /\ (lastOp'.readyState = DONE /\ lastOp'.status # 200) =>
                  lastOp'.cb = <<Invoked(statusText(lastOp'.status), JNull,
                                         messages)>>]_vars

C10_Witness ==
    /\ lastOp.op = "onreadystatechange"
    /\ lastOp.readyState = DONE /\ lastOp.status = 404
    /\ Len(messages) >= 1
    /\ lastOp.cb = <<Invoked(statusText(404), JNull, messages)>>

(***************************************************************************)
(* C11: with every key present, gatewayIdentifier g and vendor v non-empty *)
(* strings and hash falsy, toString returns a payload that begins with     *)
(* "MuniRPCv2:" + g + ",vendor=" + v, then ",time" exactly when time is    *)
(* truthy, then one line feed directly followed by the body: no "time=",   *)
(* no hash and no secret attribute, whatever the secret is.  Where g and v *)
(* hold no line feed this is the whole first line.                         *)
(***************************************************************************)
C11_Case(h) ==
    /\ Present(h)
    /\ NonEmptyString(h.gatewayIdentifier)
    /\ NonEmptyString(h.attribute.vendor)
    /\ ~Truthy(h.attribute.hash)

C11_Line(h) ==
    <<"M", "u", "n", "i", "R", "P", "C", "v", "2", ":">>
        \o h.gatewayIdentifier.s
        \o <<",", "v", "e", "n", "d", "o", "r", "=">> \o h.attribute.vendor.s
        \o (IF Truthy(h.attribute.time) THEN <<",", "t", "i", "m", "e">>
            ELSE <<>>)
        \o <<"\n">>

C11_HeaderLineExact ==
    (Stringified /\ C11_Case(header)) =>
        /\ Composed
        /\ LET line == C11_Line(header)
               text == lastOp.ret.s
           IN /\ Len(text) >= Len(line)
              /\ SubSeq(text, 1, Len(line)) = line
              /\ Len(text) - Len(line)
                   = Len(arrayToString(constructMessages(messages)))
              /\ (NoEol(header.gatewayIdentifier)
                    /\ NoEol(header.attribute.vendor))
                   => HeaderLine(text) \o <<"\n">> = line

C11_Witness ==
    /\ Composed /\ C11_Case(header)
    /\ header.attribute.time = JBool(TRUE)
    /\ header.attribute.secret = secretS
    /\ Len(messages) >= 1

(***************************************************************************)
(* C12: the secret is never rendered.  With every key present: when hash   *)
(* is falsy, the same header with any other secret (null, "" or a string)  *)
(* gives the same toString result for the same queue; when hash is truthy, *)
(* the same header with any other non-empty string secret gives a result   *)
(* that differs at most in the digest.                                     *)
(***************************************************************************)
C12_WithSecret(sc) ==
    toString([header EXCEPT !.attribute.secret = sc], messages)

C12_Masked(text) ==
    [i \in 1..Len(text) |-> IF IsDigest(text[i]) THEN "#" ELSE text[i]]

C12_SecretNotRendered ==
    (Stringified /\ Present(header)) =>
        \A sc \in Secrets \ {JUndef} :
            LET other == C12_WithSecret(sc)
            IN /\ ~Truthy(header.attribute.hash) =>
                    /\ other.thrown = lastOp.thrown
                    /\ other.ret = lastOp.ret
               /\ (Truthy(header.attribute.hash)
                     /\ NonEmptyString(header.attribute.secret)
                     /\ NonEmptyString(sc)) =>
                    /\ other.thrown = lastOp.thrown
                    /\ other.ret.t = lastOp.ret.t
                    /\ C12_Masked(other.ret.s) = C12_Masked(lastOp.ret.s)

\* a hashed payload that another secret changes, in its digest alone
C12_Witness ==
    /\ Composed /\ Present(header)
    /\ Truthy(header.attribute.hash)
    /\ header.attribute.secret = secretRn
    /\ Len(messages) >= 1
    /\ C12_WithSecret(secretS).ret # lastOp.ret
    /\ C12_Masked(C12_WithSecret(secretS).ret.s) = C12_Masked(lastOp.ret.s)

(***************************************************************************)
(* C13: md5 hashes its input as it is: the bytes handed to the block       *)
(* rounds are the input's characters in order, none dropped or rewritten,  *)
(* so two different inputs never reach the rounds as the same bytes and    *)
(* never get the same digest for that reason.                              *)
(* Fails on the code: every "r" directly followed by "n" is dropped before *)
(* the encoding, so "rn" is hashed as "n".                                 *)
(***************************************************************************)
C13_Md5HashesInputAsIs ==
    lastOp.op = "md5" =>
        /\ replaceRn(lastOp.s) = lastOp.s
        /\ \A t \in Md5Inputs : t # lastOp.s => md5(t) # lastOp.ret

(***************************************************************************)
(* C14: addZCLReport appends exactly one report to the end of the queue    *)
(* and returns it; the report's endpointId is "0x0a" when the argument is  *)
(* absent or falsy and the argument otherwise, its profileId is "0xf100"   *)
(* when the argument is absent or falsy and the argument otherwise, and    *)
(* every other field equals the corresponding argument.                    *)
(***************************************************************************)
C14_Default(arg, dflt) == IF Truthy(arg) THEN arg ELSE JStr(dflt)

C14_AddZCLReport ==
    [][lastOp'.op = "addZCLReport" =>
        LET a == lastOp'.args
            obj == lastOp'.ret
        IN /\ lastOp'.thrown = ""
           /\ Len(messages') = Len(messages) + 1
           /\ SubSeq(messages', 1, Len(messages)) = messages
           /\ messages'[Len(messages')] = obj
           /\ obj.v.endpointId
                = C14_Default(a.endpointId, <<"0", "x", "0", "a">>)
           /\ obj.v.profileId
                = C14_Default(a.profileId, <<"0", "x", "f", "1", "0", "0">>)
           /\ obj.v.eui64 = a.eui64
           /\ obj.v.clusterId = a.clusterId
           /\ obj.v.attributeId = a.attributeId
           /\ obj.v.dataTypeId = a.dataTypeId
           /\ obj.v.timestamp = a.timestamp
           /\ obj.v.value = a.value]_vars

\* a second report, added with an empty endpointId and a set profileId
C14_Witness ==
    /\ lastOp.op = "addZCLReport"
    /\ lastOp.args.endpointId = JStr(<<>>)
    /\ lastOp.args.profileId = JStr(<<"b">>)
    /\ Len(messages) = 2
    /\ messages[2].v.endpointId = defaultEndpointId
    /\ messages[2].v.profileId = JStr(<<"b">>)

(***************************************************************************)
(* C15: every call of addZCLMultiReport, addZCLCommand or addTime returns, *)
(* takes the next id, appends exactly one report carrying that id to the   *)
(* end of the queue and returns that report.                               *)
(* Fails on the code: addZCLCommand takes the next id, then throws a       *)
(* ReferenceError on the undeclared name offset: it appends nothing and    *)
(* returns nothing.                                                        *)
(***************************************************************************)
C15_OtherAddOps == {"addZCLMultiReport", "addZCLCommand", "addTime"}

C15_AddOpsAppend ==
    [][lastOp'.op \in C15_OtherAddOps =>
        /\ lastOp'.thrown = ""
        /\ messageId' = messageId + 1
        /\ lastOp'.ret.v.id = JNum(messageId')
        /\ messages' = Append(messages, lastOp'.ret)]_vars

(***************************************************************************)
(* C16: composition is read-only and stateless: toString and the           *)
(* composition made by post leave the header, the queue and the id counter *)
(* as they are; what toString returns is what composing the header and the *)
(* queue of that moment gives, whatever was composed before, so a second   *)
(* toString with nothing changed in between returns the same again.        *)
(***************************************************************************)
C16_Result(r) ==
    IF r.thrown # "" THEN <<r.thrown, JUndef>>
    ELSE IF Truthy(r.err) THEN <<"", r.err>>
    ELSE <<"", r.result>>

C16_CompositionReadOnly ==
    [][/\ lastOp'.op \in {"toString", "post"} =>
            /\ header' = header
            /\ messages' = messages
            /\ messageId' = messageId
       /\ lastOp'.op = "toString" =>
            /\ <<lastOp'.thrown, lastOp'.ret>>
                 = C16_Result(constructJOAPayload(header', messages'))
            /\ lastOp.op = "toString" =>
                 <<lastOp'.thrown, lastOp'.ret>>
                     = <<lastOp.thrown, lastOp.ret>>]_vars

\* a payload composed after the header was set and reports were added
C16_Witness ==
    /\ Composed
    /\ header # defaultHeader
    /\ Len(messages) >= 1
    /\ lastOp.ret = constructJOAPayload(header, messages).result

(***************************************************************************)
(* C17: every report that a completion with status 200 removes from the    *)
(* queue is in the payload that the completed request transmitted; a       *)
(* report added while the request was in flight stays queued.              *)
(* Fails on the code: the completion handler clears the whole queue as it  *)
(* is at completion time, so a report added after the send is removed      *)
(* without ever having been transmitted.                                   *)
(***************************************************************************)
C17_Transmitted(params, message) ==
    Occurrences(params, convertMessage(message)) >= 1

C17_OnlyTransmittedRemoved ==
    [][(/\ lastOp'.op = "onreadystatechange"
        /\ lastOp'.readyState = DONE
        /\ lastOp'.status = 200) =>
          \A i \in 1..Len(requests) :
              requests' = splice1(requests, i) =>
                  \A j \in 1..Len(messages) :
                      \/ \E k \in 1..Len(messages') :
                            messages'[k] = messages[j]
                      \/ C17_Transmitted(requests[i].params, messages[j])]_vars

(***************************************************************************)
(* C18: in every reachable state the ids of the queued reports are         *)
(* strictly ascending in queue order (hence pairwise distinct), each is    *)
(* between 1 and the id counter, and the queue is no longer than the id    *)
(* counter.                                                                *)
(***************************************************************************)
C18_QueueIds ==
    /\ \A i \in 1..Len(messages) :
          /\ messages[i].v.id.t = "number"
          /\ 1 <= messages[i].v.id.n
          /\ messages[i].v.id.n <= messageId
    /\ \A i, j \in 1..Len(messages) :
          i < j => messages[i].v.id.n < messages[j].v.id.n
    /\ \A i, j \in 1..Len(messages) :
          i # j => messages[i].v.id # messages[j].v.id
    /\ Len(messages) <= messageId

\* a queue that no longer starts at id 1, shorter than the id counter
C18_Witness ==
    /\ Len(messages) >= 1
    /\ messages[1].v.id.n > 1
    /\ messages[Len(messages)].v.id.n = messageId
    /\ Len(messages) < messageId

(***************************************************************************)
(* C19: toString writes nothing to the console, and in particular no line  *)
(* written during composition holds the secret, with hash enabled or not.  *)
(* Fails on the code: with hash enabled and a secret set, hashJOAPayload   *)
(* writes three lines to the console, two of which are the secret followed *)
(* by the payload.                                                         *)
(***************************************************************************)
C19_SecretIn(line) ==
    /\ NonEmptyString(header.attribute.secret)
    /\ Occurrences(line, header.attribute.secret.s) >= 1

C19_NothingLogged ==
    Stringified =>
        /\ \A i \in 1..Len(lastOp.log) : ~C19_SecretIn(lastOp.log[i])
        /\ lastOp.log = <<>>

(***************************************************************************)
(* C20: every call of post leads to at most one callback invocation, and   *)
(* to exactly one when composition returns and the transport completes.    *)
(* A post whose composition reports an error code invokes the callback     *)
(* once, at once, and issues no request; a post that sends invokes nothing *)
(* at once and leaves one request in flight; a post out of which an        *)
(* exception escapes invokes nothing and issues no request.  A state       *)
(* change of a request invokes the callback once when it is DONE, along    *)
(* with the end of that request, and not at all before; no other           *)
(* operation touches the requests.  The arguments are (error, null) or     *)
(* (null, response).  Every request in flight is followed by a completion  *)
(* that invokes the callback.                                              *)
(***************************************************************************)
C20_Arguments(c) ==
    \/ c.err = JNull /\ c.result = responseText
    \/ c.result = JNull /\ c.err.t = "string"

C20_PostStep ==
    lastOp'.op = "post" =>
        /\ lastOp'.thrown # "" =>
              lastOp'.cb = <<>> /\ requests' = requests
        /\ (lastOp'.thrown = "" /\ ~lastOp'.sent) =>
              /\ Len(lastOp'.cb) = 1
              /\ lastOp'.cb[1].err \in ErrorCodes
              /\ lastOp'.cb[1].result = JNull
              /\ requests' = requests
        /\ lastOp'.sent =>
              /\ lastOp'.cb = <<>>
              /\ Len(requests') = Len(requests) + 1

C20_StateChangeStep ==
    lastOp'.op = "onreadystatechange" =>
        /\ lastOp'.readyState = DONE =>
              /\ Len(lastOp'.cb) = 1
              /\ C20_Arguments(lastOp'.cb[1])
              /\ Len(requests') = Len(requests) - 1
        /\ lastOp'.readyState # DONE =>
              lastOp'.cb = <<>> /\ requests' = requests

C20_OtherStep ==
    lastOp'.op \notin {"post", "onreadystatechange"} => requests' = requests

C20_CallbackOnce ==
    /\ [][C20_PostStep /\ C20_StateChangeStep /\ C20_OtherStep]_vars
    /\ (Len(requests) >= 1) ~>
          (/\ lastOp.op = "onreadystatechange"
           /\ lastOp.readyState = DONE
           /\ Len(lastOp.cb) = 1)

\* a request that ended without a status: the callback got ("", null)
C20_Witness ==
    /\ lastOp.op = "onreadystatechange"
    /\ lastOp.readyState = DONE /\ lastOp.status = 0
    /\ lastOp.cb = <<Invoked(JStr(<<>>), JNull, messages)>>
    /\ requests = <<>>

====
